---- MODULE Spec2Model ----
(***************************************************************************)
(* Model of financial_statement_dashboard.py: the cached data fetcher      *)
(* fetch_financial_data, the ratio engine calculate_ratios, and the        *)
(* top-to-bottom script run (primary fetch, stop on failure, the tabs and  *)
(* the peer comparison).                                                   *)
(*                                                                         *)
(* Numbers.  The statements hold finite numbers and the ratios are         *)
(* quotients of them; a ratio is modelled as the exact rational <<n, d>>   *)
(* in lowest terms with d > 0 (floating-point rounding is not modelled).   *)
(***************************************************************************)
EXTENDS Integers, Sequences, FiniteSets, TLC

VARIABLES
    data,        \* calculate_ratios' argument in the ratio-engine specification
    result,      \* what calculate_ratios returned for it, Pending before the call
    clock,       \* seconds since the process started
    ticks,       \* how many times the clock has advanced (bounded)
    cache,       \* st.cache_data store of fetch_financial_data: ticker -> entry
    remote,      \* number of fetch_financial_data bodies run (provider reached)
    pc,          \* position of the script run
    runs,        \* number of script runs started (bounded)
    ticker_input,\* the primary ticker of the current run
    peers,       \* the peer list of the current run
    company_data,\* what the primary fetch returned
    errors,      \* st.error messages shown in the current run
    rendered,    \* sections drawn in the current run, in order
    calcs,       \* calculate_ratios calls made in the current run
    peer_i,      \* index of the next peer to fetch
    peer_log,    \* peers passed to fetch_financial_data in the current run, in order
    peer_ratios, \* the dict of line 554: <<company, ratios>> pairs in insertion order
    table,       \* the comparison table's company columns, NoTable when not drawn
    chart,       \* the ROE bar chart's x and y lists, NoChart when not drawn
    stops,       \* instrumentation: runs ended by st.stop()
    fetched,     \* instrumentation: per ticker, the latest call that reached the provider
    last         \* instrumentation: the latest fetch_financial_data call

vars == <<data, result, clock, ticks, cache, remote, pc, runs, ticker_input,
          peers, company_data, errors, rendered, calcs, peer_i, peer_log,
          peer_ratios, table, chart, stops, fetched, last>>

ratioVars == <<data, result>>

dashVars == <<clock, ticks, cache, remote, pc, runs, ticker_input, peers,
              company_data, errors, rendered, calcs, peer_i, peer_log,
              peer_ratios, table, chart, stops, fetched, last>>

\* the state of one script run
runVars == <<company_data, errors, rendered, calcs, peer_i, peer_log,
             peer_ratios, table, chart>>

\* the state of the cached fetcher
fetchVars == <<cache, remote, fetched, last>>

-----------------------------------------------------------------------------
(* Bounds of the model *)

MaxVal == 2
MaxEdits == 2
MaxTicks == 2
MaxRuns == 2
MaxPeers == 2

-----------------------------------------------------------------------------
(* Python values *)

None == [kind |-> "None"]
Pending == [kind |-> "Pending"]

Abs(x) == IF x < 0 THEN -x ELSE x

RECURSIVE GCD(_, _)
GCD(a, b) == IF b = 0 THEN a ELSE GCD(b, a % b)

\* the number n/d, d # 0, as a rational in lowest terms
Norm(n, d) ==
    LET g == GCD(Abs(n), Abs(d))
        s == IF d < 0 THEN -1 ELSE 1
    IN  <<(s * n) \div g, (s * d) \div g>>

\* Python's a / b on numbers a, b with b # 0
Quot(a, b) == Norm(a, b)

\* Python's q * k for a quotient q and a number k
Times(q, k) == Norm(q[1] * k, q[2])

\* the literal 0 a ratio gets when its denominator is zero
Zero == <<0, 1>>

-----------------------------------------------------------------------------
(* Statements: a table is a sequence of columns, most recent first; a      *)
(* column maps the row labels (line items) of the table to numbers.        *)

IncItems == {"Net Income", "Total Revenue", "Operating Income"}

BsItems == {"Total Assets", "Total Stockholder Equity", "Current Assets",
            "Current Liabilities", "Cash And Cash Equivalents", "Inventory",
            "Total Debt", "Total Liabilities Net Minority Interest"}

CfItems == {"Operating Cash Flow"}

\* DataFrame.empty: some axis has length 0
empty(df) == Len(df) = 0 \/ DOMAIN df[1] = {}

\* faulty variant: the oldest column is taken instead of the most recent
iloc0_TakesLast(df) == df[Len(df)]

\* df.iloc[:, 0]
iloc0(df) == df[1]

\* Series.get(name, default)
get(series, name, default) ==
    IF name \in DOMAIN series THEN series[name] ELSE default

-----------------------------------------------------------------------------
(* calculate_ratios, lines 95-149 *)

\* the line-item lookups with their defaults
net_income(latest_inc) == get(latest_inc, "Net Income", 0)
revenue(latest_inc) == get(latest_inc, "Total Revenue", 1)
operating_income(latest_inc) == get(latest_inc, "Operating Income", 0)
total_assets(latest_bs) == get(latest_bs, "Total Assets", 1)
\* faulty variant: the missing equity defaults to 0 like a numerator
total_equity_DefaultZero(latest_bs) ==
    get(latest_bs, "Total Stockholder Equity", 0)
total_equity(latest_bs) == get(latest_bs, "Total Stockholder Equity", 1)
current_assets(latest_bs) == get(latest_bs, "Current Assets", 0)
current_liabilities(latest_bs) == get(latest_bs, "Current Liabilities", 1)
cash(latest_bs) == get(latest_bs, "Cash And Cash Equivalents", 0)
inventory(latest_bs) == get(latest_bs, "Inventory", 0)
total_debt(latest_bs) == get(latest_bs, "Total Debt", 0)
total_liabilities(latest_bs) ==
    get(latest_bs, "Total Liabilities Net Minority Interest", 0)

\* faulty variant: the guard tests the numerator, so a zero denominator is divided by
PercentOf_GuardsNumerator(num, den) ==
    IF num # 0 THEN Times(Quot(num, den), 100) ELSE Zero

\* (num / den * 100) if den != 0 else 0
PercentOf(num, den) == IF den # 0 THEN Times(Quot(num, den), 100) ELSE Zero

\* num / den if den != 0 else 0
RatioOf(num, den) == IF den # 0 THEN Quot(num, den) ELSE Zero

NetProfitMargin(inc) == PercentOf(net_income(inc), revenue(inc))
ROA(inc, bs) == PercentOf(net_income(inc), total_assets(bs))
ROE(inc, bs) == PercentOf(net_income(inc), total_equity(bs))
CurrentRatio(bs) == RatioOf(current_assets(bs), current_liabilities(bs))
\* faulty variant: the inventory is not subtracted
QuickRatio_IgnoresInventory(bs) ==
    RatioOf(current_assets(bs), current_liabilities(bs))
QuickRatio(bs) ==
    RatioOf(current_assets(bs) - inventory(bs), current_liabilities(bs))
CashRatio(bs) == RatioOf(cash(bs), current_liabilities(bs))
DebtToEquity(bs) == RatioOf(total_debt(bs), total_equity(bs))
DebtToAssets(bs) == RatioOf(total_debt(bs), total_assets(bs))
EquityMultiplier(bs) == RatioOf(total_assets(bs), total_equity(bs))
AssetTurnover(inc, bs) == RatioOf(revenue(inc), total_assets(bs))
OperatingMargin(inc) == PercentOf(operating_income(inc), revenue(inc))

RatioNames == {"Net Profit Margin", "ROA", "ROE", "Current Ratio",
               "Quick Ratio", "Cash Ratio", "Debt to Equity",
               "Debt to Assets", "Equity Multiplier", "Asset Turnover",
               "Operating Margin"}

\* the dict built by lines 101-146 from the two latest columns
ratios_of(latest_inc, latest_bs) ==
    [n \in RatioNames |->
        CASE n = "Net Profit Margin" -> NetProfitMargin(latest_inc)
          [] n = "ROA" -> ROA(latest_inc, latest_bs)
          [] n = "ROE" -> ROE(latest_inc, latest_bs)
          [] n = "Current Ratio" -> CurrentRatio(latest_bs)
          [] n = "Quick Ratio" -> QuickRatio(latest_bs)
          [] n = "Cash Ratio" -> CashRatio(latest_bs)
          [] n = "Debt to Equity" -> DebtToEquity(latest_bs)
          [] n = "Debt to Assets" -> DebtToAssets(latest_bs)
          [] n = "Equity Multiplier" -> EquityMultiplier(latest_bs)
          [] n = "Asset Turnover" -> AssetTurnover(latest_inc, latest_bs)
          [] n = "Operating Margin" -> OperatingMargin(latest_inc)]

\* faulty variant: only the balance sheet is tested
insufficient_BalanceSheetOnly(bs, inc) == empty(bs)

\* if bs.empty or inc.empty: return None
insufficient(bs, inc) == empty(bs) \/ empty(inc)

\* data['balance_sheet'], data['income_statement'], data['cash_flow'] raise
\* KeyError on a record without them (a failure record); nothing else of the
\* try block raises on tables of numbers
raises(d) ==
    \/ "balance_sheet" \notin DOMAIN d
    \/ "income_statement" \notin DOMAIN d
    \/ "cash_flow" \notin DOMAIN d

\* the value returned
calculate_ratios(d) ==
    IF raises(d)
    THEN None
    ELSE LET bs == d.balance_sheet
             inc == d.income_statement
         IN  IF insufficient(bs, inc)
             THEN None
             ELSE ratios_of(iloc0(inc), iloc0(bs))

\* the st.error calls it makes (the except branch, line 148)
calc_errors(d) == IF raises(d) THEN 1 ELSE 0

-----------------------------------------------------------------------------
(* What fetch_financial_data returns, lines 84-92 *)

Success(info, inc, bs, cf) ==
    [info |-> info, income_statement |-> inc, balance_sheet |-> bs,
     cash_flow |-> cf, success |-> TRUE]

Failure(msg) == [success |-> FALSE, error |-> msg]

-----------------------------------------------------------------------------
(* Inputs of the ratio-engine specification: the statements that differ    *)
(* from a base statement in at most MaxEdits line items of the most recent *)
(* column, each edited item either dropped or set to a number of Cells;    *)
(* with or without an older column and a cash-flow table; the statement of *)
(* the specification's worked examples; and a failure record.              *)

Cells == -1 .. MaxVal

AllItems == IncItems \cup BsItems

GridInc ==
    [i \in IncItems |->
        CASE i = "Net Income" -> 3
          [] i = "Total Revenue" -> 4
          [] i = "Operating Income" -> 2]

GridBs ==
    [i \in BsItems |->
        CASE i = "Total Assets" -> 6
          [] i = "Total Stockholder Equity" -> 3
          [] i = "Current Assets" -> 5
          [] i = "Current Liabilities" -> 2
          [] i = "Cash And Cash Equivalents" -> 1
          [] i = "Inventory" -> 2
          [] i = "Total Debt" -> 4
          [] i = "Total Liabilities Net Minority Interest" -> 3]

NoRows == [i \in {} |-> 0]

ExampleInc ==
    [i \in IncItems |->
        CASE i = "Net Income" -> 100000000
          [] i = "Total Revenue" -> 1000000000
          [] i = "Operating Income" -> 200000000]

ExampleBs ==
    [i \in BsItems |->
        CASE i = "Total Assets" -> 2000
          [] i = "Total Stockholder Equity" -> 800
          [] i = "Current Assets" -> 500
          [] i = "Current Liabilities" -> 250
          [] i = "Cash And Cash Equivalents" -> 100
          [] i = "Inventory" -> 200
          [] i = "Total Debt" -> 400
          [] i = "Total Liabilities Net Minority Interest" -> 1200]

CfColumn == [i \in CfItems |-> 1]

Info == [longName |-> "Company"]

\* the column base with the items of drop removed and those of set replaced
Edited(base, items, drop, set) ==
    [i \in ((DOMAIN base \cup (DOMAIN set \cap items)) \ drop) |->
        IF i \in DOMAIN set THEN set[i] ELSE base[i]]

\* a table whose most recent column is col, with an older column or not
Table(col, older) ==
    IF older THEN <<col, [i \in DOMAIN col |-> col[i] + 1]>> ELSE <<col>>

ExampleData ==
    Success(Info, Table(ExampleInc, TRUE), Table(ExampleBs, TRUE), <<CfColumn>>)

GridData(incBase, bsBase, drop, set, older, cf) ==
    Success(Info,
            Table(Edited(incBase, IncItems, drop, set), older),
            Table(Edited(bsBase, BsItems, drop, set), older),
            cf)

-----------------------------------------------------------------------------
(* fetch_financial_data, lines 73-92: the body, and the st.cache_data      *)
(* wrapper that keeps what the body returned, per argument, for ttl        *)
(* seconds.                                                                *)

TTL == 3600

Tickers == {"AAPL", "MSFT"}

\* the provider accesses of the body, in order (lines 77, 80, 81, 82)
Accesses == {"info", "financials", "balance_sheet", "cashflow"}

ErrorMessages == {"No data found", "Connection error"}

\* the statements the provider may hold for a ticker
ProviderData ==
    {Success(Info, Table(GridInc, TRUE), Table(GridBs, TRUE), <<CfColumn>>),
     Success(Info, <<>>, <<>>, <<>>)}

\* what one run of the body meets at the provider: every access answers, or
\* the access raise_at raises an exception whose message is error
ProviderOutcomes ==
    {[raise_at |-> "none", error |-> "", data |-> d] : d \in ProviderData}
    \cup
    {[raise_at |-> a, error |-> m, data |-> None] :
        a \in Accesses, m \in ErrorMessages}

\* faulty variant: the failure record carries a fixed text instead of str(e)
fetch_body_FixedMessage(o) ==
    IF o.raise_at = "none"
    THEN Success(o.data.info, o.data.income_statement, o.data.balance_sheet,
                 o.data.cash_flow)
    ELSE Failure("error")

\* the body: try ... return {...} except Exception as e: return {... str(e)}
fetch_body(o) ==
    IF o.raise_at = "none"
    THEN Success(o.data.info, o.data.income_statement, o.data.balance_sheet,
                 o.data.cash_flow)
    ELSE Failure(o.error)

\* faulty variant: the key ignores the argument
cache_key_IgnoresTicker(ticker) == ""

\* the cache entry of a call is found by its argument
cache_key(ticker) == ticker

\* an entry is served while younger than ttl
fresh(entry, now) == now < entry.stored + TTL

cached(store, ticker, now) ==
    /\ cache_key(ticker) \in DOMAIN store
    /\ fresh(store[cache_key(ticker)], now)

\* the body returned normally, so the wrapper stores whatever it returned
stored_value(v) == v

\* the value a call returns
fetch_financial_data(store, ticker, now, o) ==
    IF cached(store, ticker, now)
    THEN store[cache_key(ticker)].value
    ELSE fetch_body(o)

\* the cache after the call
cache_after(store, ticker, now, o) ==
    IF cached(store, ticker, now)
    THEN store
    ELSE (cache_key(ticker) :> [value |-> stored_value(fetch_body(o)),
                                stored |-> now]) @@ store

\* one call, with its instrumentation
FetchCall(ticker, o) ==
    LET hit == cached(cache, ticker, clock)
        v == fetch_financial_data(cache, ticker, clock, o)
    IN  /\ cache' = cache_after(cache, ticker, clock, o)
        /\ remote' = IF hit THEN remote ELSE remote + 1
        /\ fetched' = IF hit THEN fetched
                      ELSE (ticker :> [at |-> clock, value |-> v]) @@ fetched
        /\ last' = [seq |-> last.seq + 1, ticker |-> ticker, at |-> clock,
                    hit |-> hit, value |-> v,
                    raised |-> (~hit /\ o.raise_at # "none"),
                    error |-> IF hit THEN "" ELSE o.error,
                    prev |-> IF ticker \in DOMAIN fetched
                             THEN fetched[ticker] ELSE None,
                    remote_before |-> remote]

-----------------------------------------------------------------------------
(* Initial state of the dashboard process *)

NoTable == <<"no table">>
NoChart == [x |-> <<"no chart">>, y |-> <<>>]

DashInit ==
    /\ clock = 0
    /\ ticks = 0
    /\ cache = <<>>
    /\ remote = 0
    /\ pc = "idle"
    /\ runs = 0
    /\ ticker_input = ""
    /\ peers = <<>>
    /\ company_data = None
    /\ errors = 0
    /\ rendered = <<>>
    /\ calcs = 0
    /\ peer_i = 1
    /\ peer_log = <<>>
    /\ peer_ratios = <<>>
    /\ table = NoTable
    /\ chart = NoChart
    /\ stops = 0
    /\ fetched = <<>>
    /\ last = [seq |-> 0]

-----------------------------------------------------------------------------
(* The ratio-engine specification: calculate_ratios applied to one input *)

InitRatio ==
    /\ \/ \E base \in {<<GridInc, GridBs>>, <<NoRows, NoRows>>} :
          \E edited \in SUBSET AllItems :
             /\ Cardinality(edited) <= MaxEdits
             /\ \E drop \in SUBSET edited :
                \E set \in [edited \ drop -> Cells] :
                \E older \in BOOLEAN :
                \E cf \in {<<>>, <<CfColumn>>} :
                   data = GridData(base[1], base[2], drop, set, older, cf)
       \/ data = ExampleData
       \/ data = Success(Info, <<>>, <<>>, <<>>)
       \/ data = Failure("provider error")
    /\ result = Pending
    /\ DashInit

CalcRatios ==
    /\ result = Pending
    /\ result' = calculate_ratios(data)
    /\ errors' = errors + calc_errors(data)
    /\ UNCHANGED <<data, clock, ticks, cache, remote, pc, runs, ticker_input,
                   peers, company_data, rendered, calcs, peer_i, peer_log,
                   peer_ratios, table, chart, stops, fetched, last>>

NextRatio == CalcRatios

SpecRatio == InitRatio /\ [][NextRatio]_vars

-----------------------------------------------------------------------------
(* Properties of calculate_ratios, stated on the input and its result *)

Calculated == result # Pending

IsStatementSet == ~raises(data)

BothNonEmpty ==
    /\ IsStatementSet
    /\ ~empty(data.income_statement)
    /\ ~empty(data.balance_sheet)

\* the most recent column holding the line item
ColumnOf(item) ==
    IF item \in IncItems
    THEN data.income_statement[1]
    ELSE data.balance_sheet[1]

Present(item) == item \in DOMAIN ColumnOf(item)

Value(item) == ColumnOf(item)[item]

\* the value of a line item that may be absent, read as 0 when it is
ValueOr0(item) == IF Present(item) THEN Value(item) ELSE 0

IsRatioSet == result # Pending /\ DOMAIN result = RatioNames

\* the rational r is the number n / d * k
Equals(r, n, d, k) ==
    LET g == GCD(Abs(n), Abs(d))
    IN  /\ d # 0
        /\ r[2] > 0
        /\ r[1] * (d \div g) = (n \div g) * k * r[2]

DenominatorItems == {"Total Revenue", "Total Assets",
                     "Total Stockholder Equity", "Current Liabilities"}

\* the line item each ratio divides by
DenominatorOf(n) ==
    CASE n \in {"Net Profit Margin", "Operating Margin"} -> "Total Revenue"
      [] n \in {"ROA", "Debt to Assets", "Asset Turnover"} -> "Total Assets"
      [] n \in {"ROE", "Debt to Equity", "Equity Multiplier"} ->
            "Total Stockholder Equity"
      [] n \in {"Current Ratio", "Quick Ratio", "Cash Ratio"} ->
            "Current Liabilities"

\* the line items each ratio's numerator is made of
NumeratorOf(n) ==
    CASE n \in {"Net Profit Margin", "ROA", "ROE"} -> {"Net Income"}
      [] n = "Operating Margin" -> {"Operating Income"}
      [] n = "Current Ratio" -> {"Current Assets"}
      [] n = "Quick Ratio" -> {"Current Assets", "Inventory"}
      [] n = "Cash Ratio" -> {"Cash And Cash Equivalents"}
      [] n \in {"Debt to Equity", "Debt to Assets"} -> {"Total Debt"}
      [] n = "Equity Multiplier" -> {"Total Assets"}
      [] n = "Asset Turnover" -> {"Total Revenue"}

\* C1: with both statements non-empty, all eleven line items present in the
\* most recent column and the four denominators non-zero, each of the eleven
\* ratios returned equals its formula.
C1_RatiosEqualFormulas ==
    (/\ Calculated
     /\ BothNonEmpty
     /\ \A i \in AllItems : Present(i)
     /\ \A i \in DenominatorItems : Value(i) # 0)
    =>
    /\ IsRatioSet
    /\ Equals(result["Net Profit Margin"],
              Value("Net Income"), Value("Total Revenue"), 100)
    /\ Equals(result["ROA"], Value("Net Income"), Value("Total Assets"), 100)
    /\ Equals(result["ROE"],
              Value("Net Income"), Value("Total Stockholder Equity"), 100)
    /\ Equals(result["Operating Margin"],
              Value("Operating Income"), Value("Total Revenue"), 100)
    /\ Equals(result["Current Ratio"],
              Value("Current Assets"), Value("Current Liabilities"), 1)
    /\ Equals(result["Quick Ratio"],
              Value("Current Assets") - Value("Inventory"),
              Value("Current Liabilities"), 1)
    /\ Equals(result["Cash Ratio"],
              Value("Cash And Cash Equivalents"),
              Value("Current Liabilities"), 1)
    /\ Equals(result["Debt to Equity"],
              Value("Total Debt"), Value("Total Stockholder Equity"), 1)
    /\ Equals(result["Debt to Assets"],
              Value("Total Debt"), Value("Total Assets"), 1)
    /\ Equals(result["Equity Multiplier"],
              Value("Total Assets"), Value("Total Stockholder Equity"), 1)
    /\ Equals(result["Asset Turnover"],
              Value("Total Revenue"), Value("Total Assets"), 1)

\* the worked examples: revenue 1,000,000,000 and net income 100,000,000 give
\* a margin of 10; current assets 500, inventory 200 and current liabilities
\* 250 give a current ratio of 2 and a quick ratio of 1.2 (6/5)
C1_Witness ==
    /\ data = ExampleData
    /\ IsRatioSet
    /\ result["Net Profit Margin"] = <<10, 1>>
    /\ result["Current Ratio"] = <<2, 1>>
    /\ result["Quick Ratio"] = <<6, 5>>

\* C2: with both statements non-empty, every ratio whose denominator line item
\* is present with value zero is returned as 0 within a full RatioSet; with
\* Total Revenue zero, Net Profit Margin, Operating Margin and Asset Turnover
\* are all 0.
C2_ZeroDenominatorGivesZero ==
    (Calculated /\ BothNonEmpty)
    =>
    /\ IsRatioSet
    /\ \A n \in RatioNames :
          (Present(DenominatorOf(n)) /\ Value(DenominatorOf(n)) = 0)
          => result[n][1] = 0
    /\ (Present("Total Revenue") /\ Value("Total Revenue") = 0)
       => /\ result["Net Profit Margin"][1] = 0
          /\ result["Operating Margin"][1] = 0
          /\ result["Asset Turnover"][1] = 0

C2_Witness ==
    /\ Calculated
    /\ BothNonEmpty
    /\ Present("Total Revenue") /\ Value("Total Revenue") = 0
    /\ Present("Net Income") /\ Value("Net Income") # 0
    /\ Present("Total Assets") /\ Value("Total Assets") # 0
    /\ result["Net Profit Margin"] = Zero
    /\ result["Asset Turnover"] = Zero

\* C3: for each of the eleven ratios, when the line items making its numerator
\* are absent from the most recent column the ratio is 0, whatever its
\* denominator.
C3_AbsentNumeratorGivesZero ==
    (Calculated /\ BothNonEmpty)
    =>
    \A n \in RatioNames :
        (\A i \in NumeratorOf(n) : ~Present(i)) => result[n][1] = 0

\* C4: when a ratio's denominator line item is absent the denominator is
\* taken as 1 and the ratio is still computed: the percentage ratios are the
\* numerator times 100 and the others the numerator itself; without Total
\* Stockholder Equity, ROE = NetIncome * 100, Debt to Equity = TotalDebt and
\* Equity Multiplier = TotalAssets.
C4_AbsentDenominatorIsOne ==
    (Calculated /\ BothNonEmpty)
    =>
    /\ IsRatioSet
    /\ ~Present("Total Stockholder Equity") =>
          /\ result["ROE"] = <<ValueOr0("Net Income") * 100, 1>>
          /\ result["Debt to Equity"] = <<ValueOr0("Total Debt"), 1>>
          /\ Present("Total Assets") =>
                result["Equity Multiplier"] = <<Value("Total Assets"), 1>>
    /\ ~Present("Total Revenue") =>
          /\ result["Net Profit Margin"] = <<ValueOr0("Net Income") * 100, 1>>
          /\ result["Operating Margin"] =
                <<ValueOr0("Operating Income") * 100, 1>>
    /\ ~Present("Total Assets") =>
          /\ result["ROA"] = <<ValueOr0("Net Income") * 100, 1>>
          /\ result["Debt to Assets"] = <<ValueOr0("Total Debt"), 1>>
          /\ Present("Total Revenue") =>
                result["Asset Turnover"] = <<Value("Total Revenue"), 1>>
    /\ ~Present("Current Liabilities") =>
          /\ result["Current Ratio"] = <<ValueOr0("Current Assets"), 1>>
          /\ result["Quick Ratio"] =
                <<ValueOr0("Current Assets") - ValueOr0("Inventory"), 1>>
          /\ result["Cash Ratio"] =
                <<ValueOr0("Cash And Cash Equivalents"), 1>>

C4_Witness ==
    /\ Calculated
    /\ BothNonEmpty
    /\ ~Present("Total Stockholder Equity")
    /\ Present("Net Income") /\ Value("Net Income") = 3
    /\ Present("Total Debt") /\ Value("Total Debt") = 4
    /\ Present("Total Assets") /\ Value("Total Assets") = 6
    /\ result["ROE"] = <<300, 1>>
    /\ result["Debt to Equity"] = <<4, 1>>
    /\ result["Equity Multiplier"] = <<6, 1>>

\* C5: calculate_ratios returns None, with no error message, whenever the
\* balance sheet or the income statement is empty, whatever the other
\* statements hold, and a RatioSet only when both are non-empty.
C5_EmptyStatementGivesNone ==
    (Calculated /\ IsStatementSet)
    =>
    /\ (empty(data.balance_sheet) \/ empty(data.income_statement))
       => (result = None /\ errors = 0)
    /\ result # None => (IsRatioSet /\ BothNonEmpty)

\* an empty balance sheet beside a non-empty income statement and cash flow
C5_Witness ==
    /\ Calculated
    /\ IsStatementSet
    /\ empty(data.balance_sheet)
    /\ ~empty(data.income_statement)
    /\ ~empty(data.cash_flow)
    /\ result = None
    /\ errors = 0

\* another company's metadata record
OtherInfo == [longName |-> "Other Company", sector |-> "Technology"]

\* the older columns a table may have behind the most recent column col
OlderColumnsOf(col) == {<<>>, <<[i \in DOMAIN col |-> col[i] + 2]>>}

\* the statement sets that agree with d on the most recent column of the
\* income statement and of the balance sheet, and differ from it in the older
\* columns, the cash-flow table or the metadata
SameLatestColumns(d) ==
    {Success(info,
             <<d.income_statement[1]>> \o oi,
             <<d.balance_sheet[1]>> \o ob,
             cf) :
        info \in {Info, OtherInfo},
        oi \in OlderColumnsOf(d.income_statement[1]),
        ob \in OlderColumnsOf(d.balance_sheet[1]),
        cf \in {<<>>, <<CfColumn, CfColumn>>}}

\* C11: the RatioSet depends only on the most recent column of the income
\* statement and of the balance sheet: every non-empty statement set that
\* agrees with the input on those two columns, whatever its older columns,
\* cash-flow table and metadata, gets the RatioSet the input got.
C11_OnlyLatestColumnsMatter ==
    (Calculated /\ BothNonEmpty)
    =>
    /\ IsRatioSet
    /\ \A other \in SameLatestColumns(data) :
          calculate_ratios(other) = result

\* an input with an older column and a cash-flow table, whose ratios are
\* those of the statement set that has only its most recent columns, no cash
\* flow and another company's metadata
C11_Witness ==
    /\ Calculated
    /\ BothNonEmpty
    /\ IsRatioSet
    /\ Len(data.income_statement) = 2
    /\ Len(data.balance_sheet) = 2
    /\ data.cash_flow # <<>>
    /\ data.income_statement[2] # data.income_statement[1]
    /\ \A i \in AllItems : Present(i)
    /\ result = calculate_ratios(
                   Success(OtherInfo, <<data.income_statement[1]>>,
                           <<data.balance_sheet[1]>>, <<>>))
    /\ result["ROE"] # Zero

-----------------------------------------------------------------------------
(* The script, lines 151-604: one run per interaction, top to bottom.  The *)
(* sidebar gives the run its ticker and its peer list (already stripped    *)
(* and upper-cased, lines 50-63).                                          *)

PeerLists == UNION {[1 .. n -> Tickers] : n \in 0 .. MaxPeers}

\* dict assignment d[k] = v on a dict kept as <<key, value>> pairs in
\* insertion order: a key already there keeps its place
DictSet(d, k, v) ==
    IF \E j \in 1 .. Len(d) : d[j][1] = k
    THEN [j \in 1 .. Len(d) |-> IF d[j][1] = k THEN <<k, v>> ELSE d[j]]
    ELSE Append(d, <<k, v>>)

\* the truth value Python gives what calculate_ratios returned
truthy(r) == r # None

\* the companies of peer_ratios that get a cell in each row (line 571-573)
RECURSIVE columns_of(_)
columns_of(d) ==
    IF d = <<>> THEN <<>>
    ELSE (IF truthy(d[1][2]) THEN <<d[1][1]>> ELSE <<>>) \o columns_of(Tail(d))

\* companies = list(peer_ratios.keys())
keys_of(d) == [j \in 1 .. Len(d) |-> d[j][1]]

\* roe_values = [peer_ratios[c]['ROE'] for c in companies if peer_ratios[c]]
RECURSIVE roe_values_of(_)
roe_values_of(d) ==
    IF d = <<>> THEN <<>>
    ELSE (IF truthy(d[1][2]) THEN <<d[1][2]["ROE"]>> ELSE <<>>)
         \o roe_values_of(Tail(d))

\* if len(peer_ratios) > 1
table_drawn(d) == Len(d) > 1

\* faulty variant: the run goes on after a failed fetch (no st.stop())
after_fetch_NoStop(cd) == "tabs"

\* where the run goes after the primary fetch (lines 155-157)
after_fetch(cd) == IF cd.success THEN "tabs" ELSE "stopped"

\* faulty variant: the peer is entered whether or not its fetch succeeded
after_peer_NoSuccessCheck(d, peer, peer_data) ==
    DictSet(d, peer, calculate_ratios(peer_data))

\* the peer's entry in peer_ratios after its fetch (lines 560-561)
after_peer(d, peer, peer_data) ==
    IF peer_data.success
    THEN DictSet(d, peer, calculate_ratios(peer_data))
    ELSE d

\* st.error calls made for a peer whose fetch failed: none
peer_failure_errors(peer_data) == 0

\* a new interaction re-runs the script from the top
NewRun ==
    /\ pc \in {"idle", "done", "stopped"}
    /\ runs < MaxRuns
    /\ \E t \in Tickers, ps \in PeerLists :
          /\ ticker_input' = t
          /\ peers' = ps
    /\ runs' = runs + 1
    /\ pc' = "fetch"
    /\ company_data' = None
    /\ errors' = 0
    /\ rendered' = <<>>
    /\ calcs' = 0
    /\ peer_i' = 1
    /\ peer_log' = <<>>
    /\ peer_ratios' = <<>>
    /\ table' = NoTable
    /\ chart' = NoChart
    /\ UNCHANGED <<data, result, clock, ticks, stops>>
    /\ UNCHANGED fetchVars

\* time passes; only the cache lookup reads the clock, so it is advanced
\* right before a fetch
Tick ==
    /\ pc \in {"fetch", "peer_loop"}
    /\ ticks < MaxTicks
    /\ \E d \in {1, TTL - 1} : clock' = clock + d
    /\ ticks' = ticks + 1
    /\ UNCHANGED <<data, result, pc, runs, ticker_input, peers, stops>>
    /\ UNCHANGED runVars
    /\ UNCHANGED fetchVars

\* lines 152-157: the primary fetch; on failure one st.error, then st.stop()
FetchPrimary ==
    /\ pc = "fetch"
    /\ \E o \in ProviderOutcomes :
          /\ FetchCall(ticker_input, o)
          /\ LET cd == fetch_financial_data(cache, ticker_input, clock, o)
             IN  /\ company_data' = cd
                 /\ pc' = after_fetch(cd)
                 /\ errors' = IF cd.success THEN errors ELSE errors + 1
                 /\ stops' = IF after_fetch(cd) = "stopped"
                             THEN stops + 1 ELSE stops
    /\ UNCHANGED <<data, result, clock, ticks, runs, ticker_input, peers,
                   rendered, calcs, peer_i, peer_log, peer_ratios, table,
                   chart>>

\* lines 159-544: the company header, the three statement tabs, the ratio
\* tab, which computes the primary's ratios (line 409), and the trend tab
RenderTabs ==
    /\ pc = "tabs"
    /\ calcs' = calcs + 1
    /\ errors' = errors + calc_errors(company_data)
    /\ rendered' = rendered \o <<"info", "income", "balance", "cash_flow",
                                 "ratios", "trend">>
    /\ pc' = "peer_tab"
    /\ UNCHANGED <<data, result, clock, ticks, runs, ticker_input, peers,
                   stops, company_data, peer_i, peer_log, peer_ratios, table,
                   chart>>
    /\ UNCHANGED fetchVars

\* lines 547-555 and 603-614: the peer tab opens; without peers it only
\* shows a hint and the footer ends the run, with peers the primary's ratios
\* start peer_ratios
PeerTab ==
    /\ pc = "peer_tab"
    /\ IF peers = <<>>
       THEN /\ pc' = "done"
            /\ rendered' = rendered \o <<"peers", "footer">>
            /\ UNCHANGED <<peer_ratios, calcs, errors>>
       ELSE /\ pc' = "peer_loop"
            /\ rendered' = Append(rendered, "peers")
            /\ peer_ratios' = DictSet(<<>>, ticker_input,
                                      calculate_ratios(company_data))
            /\ calcs' = calcs + 1
            /\ errors' = errors + calc_errors(company_data)
    /\ UNCHANGED <<data, result, clock, ticks, runs, ticker_input, peers,
                   stops, company_data, peer_i, peer_log, table, chart>>
    /\ UNCHANGED fetchVars

\* lines 558-561: one iteration of the loop over the peers
PeerFetch ==
    /\ pc = "peer_loop"
    /\ peer_i <= Len(peers)
    /\ \E o \in ProviderOutcomes :
          /\ FetchCall(peers[peer_i], o)
          /\ LET peer == peers[peer_i]
                 peer_data == fetch_financial_data(cache, peer, clock, o)
             IN  /\ peer_ratios' = after_peer(peer_ratios, peer, peer_data)
                 /\ calcs' = IF peer_data.success THEN calcs + 1 ELSE calcs
                 /\ errors' = errors
                       + (IF peer_data.success
                          THEN calc_errors(peer_data)
                          ELSE peer_failure_errors(peer_data))
                 /\ peer_log' = Append(peer_log,
                       [peer |-> peer,
                        success |-> peer_data.success,
                        has_ratios |-> /\ peer_data.success
                                       /\ truthy(calculate_ratios(peer_data))])
    /\ peer_i' = peer_i + 1
    /\ UNCHANGED <<data, result, clock, ticks, pc, runs, ticker_input, peers,
                   stops, company_data, rendered, table, chart>>

\* lines 563-614: after the loop, the comparison table and the ROE chart,
\* then the footer ends the run
PeerTable ==
    /\ pc = "peer_loop"
    /\ peer_i > Len(peers)
    /\ IF table_drawn(peer_ratios)
       THEN /\ table' = columns_of(peer_ratios)
            /\ chart' = [x |-> keys_of(peer_ratios),
                         y |-> roe_values_of(peer_ratios)]
       ELSE UNCHANGED <<table, chart>>
    /\ rendered' = Append(rendered, "footer")
    /\ pc' = "done"
    /\ UNCHANGED <<data, result, clock, ticks, runs, ticker_input, peers,
                   stops, company_data, errors, calcs, peer_i, peer_log,
                   peer_ratios>>
    /\ UNCHANGED fetchVars

Init ==
    /\ data = ExampleData
    /\ result = Pending
    /\ DashInit

Next ==
    \/ NewRun
    \/ Tick
    \/ FetchPrimary
    \/ RenderTabs
    \/ PeerTab
    \/ PeerFetch
    \/ PeerTable

Spec == Init /\ [][Next]_vars

-----------------------------------------------------------------------------
(* Properties of the fetcher and of the script run *)

Called == last.seq > 0

IsSuccessRecord(v) ==
    /\ DOMAIN v = {"info", "income_statement", "balance_sheet", "cash_flow",
                   "success"}
    /\ v.success = TRUE

IsFailureRecord(v) ==
    /\ DOMAIN v = {"success", "error"}
    /\ v.success = FALSE

\* C6: fetch_financial_data always returns a record: a success record with
\* info and the three statements when every provider access answered, a
\* failure record carrying the provider's error message when one raised.
C6_FetchReturnsTaggedResult ==
    Called =>
    /\ IsSuccessRecord(last.value) \/ IsFailureRecord(last.value)
    /\ last.raised =>
          (IsFailureRecord(last.value) /\ last.value.error = last.error)
    /\ (~last.hit /\ ~last.raised) => IsSuccessRecord(last.value)

C6_Witness ==
    /\ Called
    /\ last.raised
    /\ last.error = "Connection error"
    /\ last.value = [success |-> FALSE, error |-> "Connection error"]

\* C7: a call for a ticker made less than 3600 seconds after the latest call
\* for that ticker that reached the provider, when that one succeeded, returns
\* the same record without reaching the provider again; and a call served
\* from the cache is served the record of a call for the same ticker.
C7_CachedWithinWindow ==
    Called =>
    /\ (/\ last.prev # None
        /\ last.prev.value.success
        /\ last.at - last.prev.at < 3600)
       => /\ last.value = last.prev.value
          /\ remote = last.remote_before
    /\ remote = last.remote_before
       => (last.prev # None /\ last.value = last.prev.value)

\* a second call 3599 seconds after a successful one, served from the cache
C7_Witness ==
    /\ Called
    /\ last.prev # None
    /\ last.prev.value.success
    /\ last.at - last.prev.at = 3599
    /\ last.value = last.prev.value
    /\ remote = last.remote_before

\* C8: only successful results are in the cache, and a call that returns a
\* failure has reached the provider.
C8_OnlySuccessesCached ==
    /\ \A k \in DOMAIN cache : cache[k].value.success
    /\ (Called /\ ~last.value.success) => remote = last.remote_before + 1

PrimaryFailed == company_data # None /\ ~company_data.success

\* the companies heading the columns of the comparison table
TableCompanies ==
    IF table = NoTable THEN {} ELSE {table[j] : j \in 1 .. Len(table)}

\* the outcome of the last fetch of peer p in this run
LastOf(p) ==
    LET js == {j \in 1 .. Len(peer_log) : peer_log[j].peer = p}
    IN  peer_log[CHOOSE j \in js : \A k \in js : k <= j]

PeersOfRun == {peers[j] : j \in 1 .. Len(peers)}

PeerTabDone == pc = "done" /\ peers # <<>>

\* C9 as claimed: at the end of a run with peers, every peer in the list was
\* fetched in list order, no error message was shown, a peer whose fetches
\* failed is not a column, and every peer whose fetch succeeded and produced
\* ratios is a column of the comparison table.
C9_Claimed_EverySuccessfulPeerIsAColumn ==
    PeerTabDone =>
    /\ [j \in 1 .. Len(peer_log) |-> peer_log[j].peer] = peers
    /\ errors = 0
    /\ \A c \in TableCompanies :
          c = ticker_input \/ \E j \in 1 .. Len(peer_log) :
                                 peer_log[j].peer = c /\ peer_log[j].success
    /\ \A j \in 1 .. Len(peer_log) :
          (peer_log[j].success /\ peer_log[j].has_ratios)
          => peer_log[j].peer \in TableCompanies

\* some peer other than the primary ticker was fetched successfully
SomeOtherPeerFetched ==
    \E j \in 1 .. Len(peer_log) :
        peer_log[j].success /\ peer_log[j].peer # ticker_input

\* C9: at the end of a run with peers, every peer in the list was fetched in
\* list order, no error message was shown and a peer whose fetches failed is
\* not a column; the table is drawn exactly when some peer other than the
\* primary ticker was fetched successfully, and then every peer whose last
\* fetch of the run succeeded and produced ratios is a column.
C9_SuccessfulPeersAreColumnsWhenDrawn ==
    PeerTabDone =>
    /\ [j \in 1 .. Len(peer_log) |-> peer_log[j].peer] = peers
    /\ errors = 0
    /\ \A c \in TableCompanies :
          c = ticker_input \/ \E j \in 1 .. Len(peer_log) :
                                 peer_log[j].peer = c /\ peer_log[j].success
    /\ (table # NoTable) <=> SomeOtherPeerFetched
    /\ SomeOtherPeerFetched =>
          \A p \in PeersOfRun :
             (LastOf(p).success /\ LastOf(p).has_ratios)
             => p \in TableCompanies

\* the first peer's fetch failed, the second peer was still fetched and is a
\* column
C9_Witness ==
    /\ PeerTabDone
    /\ Len(peers) = 2
    /\ ~peer_log[1].success
    /\ peer_log[2].success /\ peer_log[2].has_ratios
    /\ peer_log[1].peer # peer_log[2].peer
    /\ peer_log[2].peer \in TableCompanies
    /\ peer_log[1].peer \notin TableCompanies
    /\ errors = 0

\* C10: once the primary fetch has returned a failure the run has shown
\* exactly one error message and is stopped, with no ratio computed, no
\* section drawn and no peer fetched; the run stops for no other reason, and
\* from the stopped run a new run can start.
C10_PrimaryFailureStopsRun ==
    /\ PrimaryFailed =>
          /\ pc = "stopped"
          /\ errors = 1
          /\ calcs = 0
          /\ rendered = <<>>
          /\ peer_log = <<>>
          /\ peer_ratios = <<>>
          /\ table = NoTable
    /\ pc = "stopped" => PrimaryFailed
    /\ (pc = "stopped" /\ runs < MaxRuns) => ENABLED NewRun
    /\ (stops > 0 /\ pc = "fetch") => (errors = 0 /\ company_data = None)

\* a run stopped although the sidebar named peers
C10_Witness ==
    /\ pc = "stopped"
    /\ PrimaryFailed
    /\ errors = 1
    /\ peers # <<>>
    /\ remote = last.remote_before + 1

\* the ratios peer_ratios holds for its j-th company
RatiosAt(j) == peer_ratios[j][2]

\* C12: in the ROE chart the list of ROE values is as long as the list of
\* company names, and the value at each position is the ROE of the company at
\* that position.
C12_RoeValuesAlignWithCompanies ==
    chart # NoChart =>
    /\ chart.x = keys_of(peer_ratios)
    /\ Len(chart.y) = Len(chart.x)
    /\ \A j \in 1 .. Len(chart.x) :
          truthy(RatiosAt(j)) => chart.y[j] = RatiosAt(j)["ROE"]

====
